---- MODULE Spec2Model ----
(***************************************************************************)
(* A model of acc-bot.py: the setup pipeline (discover_documents,         *)
(* load_pdf, read_all_docs, setup) followed by the console loop of the    *)
(* __main__ block.  The filesystem, the PDF loader, the text splitter,    *)
(* the vector store service and the terminal are the environment.         *)
(***************************************************************************)
EXTENDS Integers, Sequences, FiniteSets, TLC

\* ------------------------------------------------------------------ bounds
MaxPages == 1       \* pages a readable PDF has at most
MaxChunks == 2      \* chunks the splitter makes of one page at most
MaxK == 2           \* largest capacity of the vector store service
MaxLines == 2       \* lines the terminal delivers at most
MaxLineLen == 2     \* characters of a line at most

Names == {"a", "b"}                         \* entry names inside the directory
Kinds == {"none", "file", "dir", "other"}   \* what stat() says of an entry
Chars == {"q", "Q", " "}                    \* characters of an input line
Dir == "documents"                          \* default of the dir parameter

VARIABLES
    fs,            \* the filesystem below the working directory
    capacity,      \* the service raises RateLimitError above this length
    tty,           \* the lines the terminal can deliver
    pc,            \* position of the process
    found,         \* the list discover_documents returned
    loaded,        \* how many entries of found read_all_docs has loaded
    res,           \* read_all_docs: the pages collected so far
    docs,          \* setup: docs
    split_docs,    \* setup: split_docs
    submissions,   \* every call of Chroma.from_documents, with its outcome
    vector_store,  \* setup: vector_store
    rag_chain,     \* __main__: rag_chain
    err,           \* the exception that ended the process, "none" if none
    linesRead,     \* every line input() has returned, in order
    query,         \* __main__: query
    forwarded,     \* every argument of rag_chain.invoke, in order
    farewell       \* the farewell message has been printed

vars == <<fs, capacity, tty, pc, found, loaded, res, docs, split_docs, submissions,
          vector_store, rag_chain, err, linesRead, query, forwarded, farewell>>

setupVars == <<found, loaded, res, docs, split_docs, submissions,
               vector_store, rag_chain>>
consoleVars == <<linesRead, query, forwarded, farewell>>
envVars == <<fs, capacity, tty>>

\* ------------------------------------------------------------- filesystem
\* A readable PDF has 0..MaxPages pages; -1 marks a file PyPDFLoader rejects.
FileSystems ==
    { f \in [kind : {"missing", "dir", "file"},
             entries : [Names -> Kinds],
             nested : SUBSET Names,
             pdf : [Names -> -1..MaxPages]] :
        /\ f.kind # "dir" => \A n \in Names : f.entries[n] = "none"
        /\ \A n \in f.nested : f.entries[n] = "dir"
        /\ \A n \in Names : f.entries[n] # "file" => f.pdf[n] = -1 }

ConsoleFileSystems ==
    { f \in FileSystems :
        \/ f.kind = "missing"
        \/ /\ f.kind = "dir"
           /\ f.entries = [n \in Names |-> IF n = "a" THEN "file" ELSE "none"]
           /\ f.pdf["a"] = 1 }

\* os.path.join(dir, f)
Join(dir, f) == <<dir, f>>

\* os.listdir(dir): the names directly inside dir
ListDir(f) == { n \in Names : f.entries[n] # "none" }

\* os.path.exists in the place of os.path.isfile
IsFileExists(f, n) == f.entries[n] # "none"

\* os.path.isfile(os.path.join(dir, f))
IsFile(f, n) == f.entries[n] = "file"

\* All orderings of a finite set, as sequences without repetition
Orderings(S) ==
    { s \in [1..Cardinality(S) -> S] : \A i, j \in 1..Cardinality(S) :
                                          i # j => s[i] # s[j] }

\* [x for x in s if P(x)]
RECURSIVE Filter(_, _, _)
Filter(s, f, i) ==
    IF i > Len(s) THEN <<>>
    ELSE (IF IsFile(f, s[i]) THEN <<Join(Dir, s[i])>> ELSE <<>>)
         \o Filter(s, f, i + 1)

\* discover_documents: the comprehension over one listing order
DiscoverDocuments(f, listing) == Filter(listing, f, 1)

\* load_pdf(file): one record per page
LoadPdf(f, path) ==
    [i \in 1..f.pdf[path[2]] |-> [source |-> path, page |-> i - 1]]

\* ------------------------------------------------------------------ splitter
\* splitter.split_documents(docs) with counts[i] chunks made of page i
RECURSIVE SplitFrom(_, _, _)
SplitFrom(pages, counts, i) ==
    IF i > Len(pages) THEN <<>>
    ELSE [k \in 1..counts[i] |-> [source |-> pages[i].source,
                                  page |-> pages[i].page,
                                  chunk |-> k - 1]]
         \o SplitFrom(pages, counts, i + 1)

SplitDocuments(pages, counts) == SplitFrom(pages, counts, 1)

\* ------------------------------------------------------------ vector store
None == [set |-> FALSE, documents |-> <<>>]

\* the service's answer to a submission of n documents
Raises(n) == n > capacity

\* a store that holds the first half of the documents only
FromDocumentsHalved(documents) ==
    [set |-> TRUE, documents |-> SubSeq(documents, 1, Len(documents) \div 2)]

\* the store Chroma.from_documents returns for the documents it was given
FromDocuments(documents) == [set |-> TRUE, documents |-> documents]

\* the chain built on vector_store.as_retriever()
RagChain(store) == [set |-> TRUE, documents |-> store.documents]

\* ------------------------------------------------------------------ strings
Lines == UNION { [1..n -> Chars] : n \in 0..MaxLineLen }

\* three lines of the terminal: a quit line, an empty line, a question
SampleLines == {<<"Q">>, <<>>, <<"q", "q">>}

IsSpace(c) == c = " "

\* str.lstrip()
RECURSIVE LStrip(_)
LStrip(s) == IF s # <<>> /\ IsSpace(Head(s)) THEN LStrip(Tail(s)) ELSE s

\* str.rstrip()
RECURSIVE RStrip(_)
RStrip(s) ==
    IF s # <<>> /\ IsSpace(s[Len(s)]) THEN RStrip(SubSeq(s, 1, Len(s) - 1))
    ELSE s

\* str.strip()
Strip(s) == RStrip(LStrip(s))

LowerChar(c) == IF c = "Q" THEN "q" ELSE c

\* str.lower()
Lower(s) == [i \in 1..Len(s) |-> LowerChar(s[i])]

\* query == "q", the comparison without lower()
IsQuitExact(q) == q = <<"q">>

\* query.lower() == "q"
IsQuit(q) == Lower(q) = <<"q">>

\* -------------------------------------------------------------------- Init
\* the state of the process when it starts
Start ==
    /\ pc = "discover"
    /\ found = <<>>
    /\ loaded = 0
    /\ res = <<>>
    /\ docs = <<>>
    /\ split_docs = <<>>
    /\ submissions = <<>>
    /\ vector_store = None
    /\ rag_chain = None
    /\ err = "none"
    /\ linesRead = <<>>
    /\ query = <<>>
    /\ forwarded = <<>>
    /\ farewell = FALSE

\* any directory, any service, a terminal that delivers a few lines
Init ==
    /\ fs \in FileSystems
    /\ capacity \in -1..MaxK
    /\ tty = SampleLines
    /\ Start

\* a missing directory or one one-page PDF, a terminal that delivers any line
ConsoleInit ==
    /\ fs \in ConsoleFileSystems
    /\ capacity = 1
    /\ tty = Lines
    /\ Start

\* an exception that is swallowed: the process goes on to the prompt
RaiseSwallowed(e) == pc' = "prompt" /\ err' = e

\* an exception nobody catches ends the process
Raise(e) == pc' = "aborted" /\ err' = e

\* ----------------------------------------------------------------- actions
\* read_all_docs -> discover_documents(dir), the directory is listed
Discover ==
    /\ pc = "discover"
    /\ fs.kind = "dir"
    /\ \E listing \in Orderings(ListDir(fs)) :
          found' = DiscoverDocuments(fs, listing)
    /\ pc' = "load"
    /\ UNCHANGED <<envVars, loaded, res, docs, split_docs, submissions,
                   vector_store, rag_chain, err, consoleVars>>

\* os.listdir(dir) raises: no such directory, or dir is not a directory
DiscoverFails ==
    /\ pc = "discover"
    /\ fs.kind # "dir"
    /\ Raise(IF fs.kind = "missing" THEN "FileNotFoundError"
             ELSE "NotADirectoryError")
    /\ UNCHANGED <<envVars, setupVars, consoleVars>>

\* one iteration of the loop of read_all_docs: res.extend(load_pdf(d))
LoadNext ==
    /\ pc = "load"
    /\ loaded < Len(found)
    /\ LET d == found[loaded + 1] IN
          IF fs.pdf[d[2]] = -1
          THEN /\ Raise("UnreadableDocumentError")
               /\ UNCHANGED <<loaded, res>>
          ELSE /\ res' = res \o LoadPdf(fs, d)
               /\ loaded' = loaded + 1
               /\ UNCHANGED <<pc, err>>
    /\ UNCHANGED <<envVars, found, docs, split_docs, submissions,
                   vector_store, rag_chain, consoleVars>>

\* the loop of read_all_docs is over: docs = read_all_docs()
LoadDone ==
    /\ pc = "load"
    /\ loaded = Len(found)
    /\ docs' = res
    /\ pc' = "split"
    /\ UNCHANGED <<envVars, found, loaded, res, split_docs, submissions,
                   vector_store, rag_chain, err, consoleVars>>

\* split_docs = splitter.split_documents(docs)
Split ==
    /\ pc = "split"
    /\ \E counts \in [1..Len(docs) -> 0..MaxChunks] :
          split_docs' = SplitDocuments(docs, counts)
    /\ pc' = "index"
    /\ UNCHANGED <<envVars, found, loaded, res, docs, submissions,
                   vector_store, rag_chain, err, consoleVars>>

\* vector_store = Chroma.from_documents(documents=split_docs, ...)
Index ==
    /\ pc = "index"
    /\ IF Raises(Len(split_docs))
       THEN /\ submissions' = Append(submissions,
                     [corpus |-> split_docs, outcome |-> "RateLimitError"])
            /\ Raise("RateLimitError")
            /\ UNCHANGED vector_store
       ELSE /\ submissions' = Append(submissions,
                     [corpus |-> split_docs, outcome |-> "ok"])
            /\ vector_store' = FromDocuments(split_docs)
            /\ pc' = "chain"
            /\ UNCHANGED err
    /\ UNCHANGED <<envVars, found, loaded, res, docs, split_docs,
                   rag_chain, consoleVars>>

\* retriever, prompt, llm, rag_chain; return docs, rag_chain
BuildChain ==
    /\ pc = "chain"
    /\ rag_chain' = RagChain(vector_store)
    /\ pc' = "prompt"
    /\ UNCHANGED <<envVars, found, loaded, res, docs, split_docs,
                   submissions, vector_store, err, consoleVars>>

\* hub.pull or the model client fails
BuildChainFails ==
    /\ pc = "chain"
    /\ Raise("ChainSetupError")
    /\ UNCHANGED <<envVars, setupVars, consoleVars>>

\* query = input(format_user()).strip()
ReadLine ==
    /\ pc = "prompt"
    /\ Len(linesRead) < MaxLines
    /\ \E line \in tty :
          /\ linesRead' = Append(linesRead, line)
          /\ query' = Strip(line)
    /\ pc' = "check"
    /\ UNCHANGED <<envVars, setupVars, err, forwarded, farewell>>

\* input() at the end of the input
ReadEOF ==
    /\ pc = "prompt"
    /\ Raise("EOFError")
    /\ UNCHANGED <<envVars, setupVars, consoleVars>>

\* if query.lower() == "q": break, then the farewell
Quit ==
    /\ pc = "check"
    /\ IsQuit(query)
    /\ farewell' = TRUE
    /\ pc' = "done"
    /\ UNCHANGED <<envVars, setupVars, err, linesRead, query, forwarded>>

\* print(format_bot(rag_chain.invoke(query)))
Forward ==
    /\ pc = "check"
    /\ ~IsQuit(query)
    /\ forwarded' = Append(forwarded, query)
    /\ pc' = "prompt"
    /\ UNCHANGED <<envVars, setupVars, err, linesRead, query, farewell>>

\* rag_chain.invoke(query) raises
ForwardFails ==
    /\ pc = "check"
    /\ ~IsQuit(query)
    /\ forwarded' = Append(forwarded, query)
    /\ Raise("QueryError")
    /\ UNCHANGED <<envVars, setupVars, linesRead, query, farewell>>

Next ==
    \/ Discover
    \/ DiscoverFails
    \/ LoadNext
    \/ LoadDone
    \/ Split
    \/ Index
    \/ BuildChain
    \/ BuildChainFails
    \/ ReadLine
    \/ ReadEOF
    \/ Quit
    \/ Forward
    \/ ForwardFails

Spec == Init /\ [][Next]_vars

\* the process keeps running while it has a step to take
FairSpec == Spec /\ WF_vars(Next)

ConsoleSpec == ConsoleInit /\ [][Next]_vars

TypeOK ==
    /\ fs \in FileSystems
    /\ pc \in {"discover", "load", "split", "index", "chain", "prompt",
               "check", "done", "aborted"}
    /\ Len(submissions) <= 1

\* ------------------------------------------------------ the indexing step
\* the indexing step is over: the service was called and setup went on or died
IndexingEnded == submissions # <<>> /\ pc # "index"

LastSubmission == submissions[Len(submissions)]

FirstHalf(c) == SubSeq(c, 1, Len(c) \div 2)

IsPrefix(a, b) == Len(a) <= Len(b) /\ a = SubSeq(b, 1, Len(a))

\* the first of n, n/2, n/4, ... that is at most k
RECURSIVE LargestHalving(_, _)
LargestHalving(n, k) == IF n <= k THEN n ELSE LargestHalving(n \div 2, k)

\* C1: once the indexing step of a non-empty corpus is over, every
\* submission that failed with the capacity error and has a non-empty first half is followed by a submission
\* of exactly that first half, every submission is a prefix of the first
\* one, and the capacity error is not what ended the process.
C1_HalvingRetry ==
    (IndexingEnded /\ submissions[1].corpus # <<>>) =>
        /\ \A i \in 1..Len(submissions) :
              (/\ submissions[i].outcome = "RateLimitError"
               /\ FirstHalf(submissions[i].corpus) # <<>>)
              => /\ i < Len(submissions)
                 /\ submissions[i + 1].corpus = FirstHalf(submissions[i].corpus)
        /\ \A i \in 1..Len(submissions) :
              IsPrefix(submissions[i].corpus, submissions[1].corpus)
        /\ err # "RateLimitError"

\* C2: against a service that raises the capacity error on every submission
\* the indexing step of a non-empty corpus ends with IndexingExhaustedError, after a submission of
\* length 1 at most, and hands out no store and no chain.
C2_Exhaustion ==
    (IndexingEnded /\ capacity = -1 /\ submissions[1].corpus # <<>>) =>
        /\ err = "IndexingExhaustedError"
        /\ Len(LastSubmission.corpus) <= 1
        /\ ~vector_store.set
        /\ ~rag_chain.set

\* C3: with a corpus of N >= 1 chunks and a service of capacity K >= 1 the
\* indexing step succeeds, and its last submission has the length of the
\* first of N, N/2, N/4, ... that is at most K.
C3_HalvingResult ==
    (IndexingEnded /\ capacity >= 1 /\ Len(submissions[1].corpus) >= 1) =>
        /\ vector_store.set
        /\ LastSubmission.outcome = "ok"
        /\ Len(LastSubmission.corpus) =
              LargestHalving(Len(submissions[1].corpus), capacity)

\* C4: a store the indexing step hands out, and the chain built on it, hold
\* exactly the corpus of the last submission, which succeeded.
C4_HandleIsLastSubmission ==
    /\ vector_store.set =>
          /\ submissions # <<>>
          /\ LastSubmission.outcome = "ok"
          /\ vector_store.documents = LastSubmission.corpus
    /\ rag_chain.set =>
          /\ vector_store.set
          /\ rag_chain.documents = LastSubmission.corpus

\* C4 witness: setup has returned a chain over a corpus of two chunks or more
C4_Witness ==
    /\ pc = "prompt"
    /\ rag_chain.set
    /\ Len(LastSubmission.corpus) >= 2

\* C5: no corpus handed to the service is empty.
C5_NeverEmpty ==
    \A i \in 1..Len(submissions) : submissions[i].corpus # <<>>

\* C6: the indexing step of a non-empty corpus, once begun, ends with a store or with
\* IndexingExhaustedError, and every submission after the first is strictly
\* shorter than the one before it.
C6_Terminates ==
    /\ (pc = "index" /\ split_docs # <<>>)
          ~> (vector_store.set \/ err = "IndexingExhaustedError")
    /\ [](\A i \in 2..Len(submissions) :
              Len(submissions[i].corpus) < Len(submissions[i - 1].corpus))

\* ----------------------------------------------------------- the console
\* the positions of a line that are not a space
Solid(l) == { i \in 1..Len(l) : l[i] # " " }

Least(S) == CHOOSE x \in S : \A y \in S : x <= y
Greatest(S) == CHOOSE x \in S : \A y \in S : y <= x

\* a line without the spaces at its two ends
Trimmed(l) ==
    IF Solid(l) = {} THEN <<>> ELSE SubSeq(l, Least(Solid(l)), Greatest(Solid(l)))

\* a line that is one q or Q between spaces
QuitLine(l) == Trimmed(l) \in {<<"q">>, <<"Q">>}

\* the lines the loop has dealt with: all that were read but one being checked
Handled == IF pc = "check" THEN Len(linesRead) - 1 ELSE Len(linesRead)

\* C7: the questions forwarded are the lines read before the first quit
\* line, trimmed, each once and in the order read; a quit line is the last
\* line read and is not forwarded; the loop has ended with the farewell
\* exactly when the last line read was a quit line.
C7_ConsoleLoop ==
    /\ \A i \in 1..Len(linesRead) :
          QuitLine(linesRead[i]) => i = Len(linesRead)
    /\ LET last == Len(linesRead)
           quit == last > 0 /\ QuitLine(linesRead[last])
           n == IF quit /\ pc # "check" THEN Handled - 1 ELSE Handled
       IN /\ forwarded = [i \in 1..n |-> Trimmed(linesRead[i])]
          /\ (pc = "done") <=> (quit /\ pc # "check")
          /\ farewell <=> (pc = "done")

\* C7 witness: a question was forwarded, then a quit line that is not plain
\* "q" ended the loop
C7_Witness ==
    /\ pc = "done"
    /\ Len(forwarded) = 1
    /\ forwarded[1] # linesRead[1]
    /\ linesRead[Len(linesRead)] # <<"q">>

\* ------------------------------------------------------- setup and prompt
SetupErrors == {"FileNotFoundError", "NotADirectoryError",
                "UnreadableDocumentError", "RateLimitError",
                "IndexingExhaustedError", "ChainSetupError"}

\* C8: a line is read or a question forwarded only after setup has returned
\* its chain; a run that setup ended with an error reads and forwards nothing.
C8_SetupBeforePrompt ==
    /\ (linesRead # <<>> \/ forwarded # <<>> \/ farewell
        \/ pc \in {"prompt", "check", "done"})
       => (rag_chain.set /\ err \notin SetupErrors)
    /\ err \in SetupErrors =>
          /\ pc = "aborted"
          /\ ~rag_chain.set
          /\ linesRead = <<>>
          /\ forwarded = <<>>

\* C8 witness: setup died of an unreadable document and nothing was read
C8_Witness ==
    /\ err = "UnreadableDocumentError"
    /\ pc = "aborted"
    /\ linesRead = <<>>

\* --------------------------------------------------------- the locator
RegularFiles(f) == { n \in Names : f.entries[n] = "file" }

\* C9: the step that runs discover_documents leaves the filesystem as it
\* was; on a directory it yields, without repetition, the paths dir/f of the
\* entries f of dir that are regular files and nothing else, so nothing of
\* a subdirectory; on a missing directory it yields the not-found error and
\* no result.
C9_Discover ==
    [][pc = "discover" =>
          /\ fs' = fs
          /\ fs.kind = "dir" =>
                /\ err' = "none"
                /\ { found'[i] : i \in 1..Len(found') }
                      = { <<Dir, n>> : n \in RegularFiles(fs) }
                /\ Len(found') = Cardinality(RegularFiles(fs))
          /\ fs.kind = "missing" =>
                /\ err' = "FileNotFoundError"
                /\ found' = <<>>
                /\ pc' = "aborted"]_vars

\* C9 witness: a listing of a directory with a regular file, a subdirectory
\* that holds a file, and the result with the one regular file
C9_Witness ==
    /\ pc = "load"
    /\ Len(found) = 1
    /\ fs.nested # {}
====
